---- MODULE Spec2Model ----
(***************************************************************************)
(* Model of src/speech-to-text.py: the FastAPI front-end over Whisper.     *)
(*                                                                         *)
(* The process runs one asyncio event loop (uvicorn.run, one worker).      *)
(* transcribe_audio is an `async def` whose body contains no `await`, so   *)
(* the event loop runs one handler body from its first line to its return  *)
(* or raise before it runs any other coroutine: `pc` is the position of    *)
(* that single running handler and "idle" means the loop is free.          *)
(* cleanup_file is a plain `def` scheduled with BackgroundTasks: the       *)
(* framework runs it in a worker thread after the success response was     *)
(* sent, concurrently with whatever the event loop does next.  An          *)
(* exception leaving the handler produces the error response without the   *)
(* request's background tasks, which are then never run.                   *)
(***************************************************************************)
EXTENDS Naturals, Sequences, FiniteSets

\* ---------------------------------------------------------------- bounds
MaxReq == 2          \* POST /transcribe/ requests in one process lifetime

Reqs == 1..MaxReq

\* ------------------------------------------------------- program constants
TEMP_DIR == "temp_audio"
MODELS == <<"tiny", "base", "small", "medium", "large">>
DefaultModel == "base"
DefaultLanguage == "tr"

\* ------------------------------------------------------------------ inputs
Omitted == "<omitted>"          \* a form field the client did not send
NoName == <<"<None>">>          \* UploadFile.filename is None
NoPath == [dir |-> "", uuid |-> 0, ext |-> <<>>]
NoHandle == [size |-> "", id |-> 0]
NoError == "<no error>"
NoText == "<no text>"
NoDetail == <<>>
NoLine == <<>>
NoCall == "<no call>"

ModelForms == {"tiny", "base", "small", "medium", "large", "huge", Omitted}
LanguageForms == {"en", Omitted}
FileNames == {<<"A", ".", "M">>, NoName}
Texts == {"merhaba", "hello"}

RangeOf(s) == {s[i] : i \in 1..Len(s)}
ModelSet == RangeOf(MODELS)

\* ----------------------------------------------------- pure helper functions
\* str.lower() on the characters the inputs use
LowerChar(c) ==
  IF c = "A" THEN "a" ELSE IF c = "M" THEN "m" ELSE c

Lower(s) == [i \in 1..Len(s) |-> LowerChar(s[i])]

LastIndexOf(s, c) ==
  IF \E i \in 1..Len(s) : s[i] = c
    THEN CHOOSE i \in 1..Len(s) : s[i] = c /\ \A j \in (i+1)..Len(s) : s[j] # c
    ELSE 0

\* os.path.splitext(p)[1]: the suffix from the last dot of the last path
\* component, empty when that component has no dot or only leading dots
SplitExt(p) ==
  LET sep == LastIndexOf(p, "/")
      dot == LastIndexOf(p, ".")
  IN IF dot > sep /\ \E k \in (sep+1)..(dot-1) : p[k] # "."
       THEN SubSeq(p, dot, Len(p))
       ELSE <<>>

\* a name that does not depend on the uuid
TempPathShared(u, ext) == [dir |-> TEMP_DIR, uuid |-> 0, ext |-> ext]

\* f"{TEMP_DIR}/{uuid.uuid4()}{file_ext}"
TempPath(u, ext) == [dir |-> TEMP_DIR, uuid |-> u, ext |-> ext]

\* a validation that accepts every name
IsValidModelAny(m) == TRUE

\* line 60: model_name in MODELS
IsValidModel(m) == m \in ModelSet

\* the dict model_cache: a sequence of (key, value) entries in insertion order
Keys(d) == {d[i].key : i \in 1..Len(d)}

\* a lookup that never finds the key
HasNever(d, k) == FALSE

\* k in d
Has(d, k) == k \in Keys(d)

\* d[k]
Get(d, k) == d[CHOOSE i \in 1..Len(d) : d[i].key = k].value

\* a store that drops the other entries
PutOnly(d, k, v) == <<[key |-> k, value |-> v]>>

\* d[k] = v
Put(d, k, v) ==
  IF k \in Keys(d)
    THEN [i \in 1..Len(d) |-> IF d[i].key = k THEN [key |-> k, value |-> v] ELSE d[i]]
    ELSE Append(d, [key |-> k, value |-> v])

\* a failed load that leaves an empty entry behind
LoadRaisedStoresEmpty(d, k) == Put(d, k, NoHandle)

\* line 78 when whisper.load_model raises: the assignment to
\* model_cache[model_name] is not executed
LoadRaised(d, k) == d

\* list(d.keys())
KeyList(d) == [i \in 1..Len(d) |-> d[i].key]

\* os.remove(path) on the scratch directory d: FileNotFoundError when the
\* file is not there
os_remove(path, d) == [disk |-> d \ {path}, raised |-> path \notin d]

\* a cleanup without the os.path.exists test
cleanup_file_unguarded(file_path, d) == os_remove(file_path, d)

\* lines 42-43: one call of cleanup_file, the directory it leaves and
\* whether it raised
cleanup_file_run(file_path, d) ==
  IF file_path \in d THEN os_remove(file_path, d) ELSE [disk |-> d, raised |-> FALSE]

\* a cleanup that removes nothing
cleanup_file_noop(file_path, d) == d

\* cleanup_file(file_path) on the scratch directory d

cleanup_file(file_path, d) == cleanup_file_run(file_path, d).disk

\* an except block without the removal
except_remove_skip(file_path, d) == d

\* lines 95-96: the except block's inline removal

except_remove(file_path, d) ==
  IF file_path \in d THEN d \ {file_path} ELSE d

\* the number of os.remove calls on file_path that turned d into d2
Removals(file_path, d, d2) == IF file_path \in d /\ file_path \notin d2 THEN 1 ELSE 0

\* a body with the language and the model exchanged
TranscriptionBodySwapped(text, filename, lang, mname) ==
  [text |-> text, filename |-> filename, language |-> mname, model |-> lang]

\* lines 86-91
TranscriptionBody(text, filename, lang, mname) ==
  [text |-> text, filename |-> filename, language |-> lang, model |-> mname]

\* a health body that lists every supported size
HealthBodyAll(d) == [status |-> "healthy", models_loaded |-> MODELS]

\* lines 107-110
HealthBody(d) == [status |-> "healthy", models_loaded |-> KeyList(d)]

\* a models body in alphabetical order
ModelsBodySorted == [models |-> <<"base", "large", "medium", "small", "tiny">>]

\* line 102
ModelsBody == [models |-> MODELS]

\* line 115
RootBody ==
  [message |-> "Speech-to-Text API with Whisper. Visit /docs for API documentation."]

ErrorDetail(err) == <<"Error during transcription: ", err>>

BadModelDetail == <<"Model must be one of ", MODELS>>

\* the str(e) of the exception each step can raise
ErrOpen == "OSError: cannot open the temporary file"
ErrCopy == "OSError: cannot write the upload"
ErrLoad == "RuntimeError: cannot load the model"
ErrTranscribe == "RuntimeError: cannot transcribe the audio"

\* ------------------------------------------------------------------- state
VARIABLES
  inbox,             \* accepted requests waiting for the event loop: [id, model_name]
  arrived,           \* number of requests accepted so far
  pc,                \* position of the handler the event loop is running
  cur,               \* its request id (0: none)
  form,              \* the form fields as sent: [model_name, language]
  file,              \* file.filename
  model_name,        \* parameters after the Form(...) defaults
  language,
  temp_file_path,
  e,                 \* the exception caught by `except Exception as e`
  model,
  result,            \* result["text"]
  response,          \* the response the last step produced (NoResponse: none)
  disk,              \* the files present in TEMP_DIR
  model_cache,
  background_tasks,  \* per request: the paths passed to add_task(cleanup_file, .)
  bg_state,          \* per request: "open", "attached", "ran", "dropped"
  uuid_calls,        \* uuid.uuid4() calls so far; the n-th call returns n
  load_count,        \* whisper.load_model calls that returned; the n-th
                     \* returns the model object n
  \* history variables
  temp_path,         \* per request: the temporary path it generated
  outcome,           \* per request: "none", "200", "400", "500", "unhandled"
  failed_at,         \* per request: the step that raised, or "none"
  created,           \* per request: times its temporary file was created
  deleted,           \* per request: times its temporary file was removed
  missed,            \* per request: the cache lookup found no entry
  loaded,            \* per request: it stored a freshly loaded handle
  rivals,            \* per request: the requests in flight for the same
                     \* not-yet-cached size when this one was accepted
  stdout,            \* the line the last step printed ("": none)
  load_call,         \* the size the last step called whisper.load_model with
  loaded_sizes,      \* the sizes for which whisper.load_model has returned
  file_path,         \* the argument of the cleanup_file call the last step made
  raised,            \* whether that call raised
  removed            \* whether that call removed a file

locals == <<cur, form, file, model_name, language, temp_file_path, e, model, result>>
files == <<disk, background_tasks, bg_state, uuid_calls, load_count>>
history == <<temp_path, outcome, failed_at, created, deleted, missed, loaded, rivals>>
loads == <<stdout, load_call, loaded_sizes>>
release == <<file_path, raised, removed>>
vars == <<inbox, arrived, pc, response, model_cache, locals, files, history, loads, release>>

NoBody == [empty |-> TRUE]

Response(ep, r, status, body, detail) ==
  [endpoint |-> ep, for |-> r, status |-> status, body |-> body, detail |-> detail]

NoResponse == Response("none", 0, 0, NoBody, NoDetail)

NoRequests ==
  /\ inbox = {}
  /\ arrived = 0
  /\ pc = "idle"
  /\ cur = 0
  /\ form = [model_name |-> Omitted, language |-> Omitted]
  /\ file = NoName
  /\ model_name = DefaultModel
  /\ language = DefaultLanguage
  /\ temp_file_path = NoPath
  /\ e = NoError
  /\ model = NoHandle
  /\ result = NoText
  /\ response = NoResponse
  /\ background_tasks = [r \in Reqs |-> <<>>]
  /\ bg_state = [r \in Reqs |-> "open"]
  /\ uuid_calls = 0
  /\ temp_path = [r \in Reqs |-> NoPath]
  /\ outcome = [r \in Reqs |-> "none"]
  /\ failed_at = [r \in Reqs |-> "none"]
  /\ created = [r \in Reqs |-> 0]
  /\ deleted = [r \in Reqs |-> 0]
  /\ missed = [r \in Reqs |-> FALSE]
  /\ loaded = [r \in Reqs |-> FALSE]
  /\ rivals = [r \in Reqs |-> {}]
  /\ load_count = 0
  /\ stdout = NoLine
  /\ load_call = NoCall
  /\ loaded_sizes = {}
  /\ file_path = NoPath
  /\ raised = FALSE
  /\ removed = FALSE

\* lines 25-32: TEMP_DIR holds no file of this process, model_cache = {}
Init ==
  /\ NoRequests
  /\ disk = {}
  /\ model_cache = <<>>

\* the handler's locals go out of scope
ClearLocals ==
  /\ cur' = 0
  /\ form' = [model_name |-> Omitted, language |-> Omitted]
  /\ file' = NoName
  /\ model_name' = DefaultModel
  /\ language' = DefaultLanguage
  /\ temp_file_path' = NoPath
  /\ e' = NoError
  /\ model' = NoHandle
  /\ result' = NoText

\* a step that does not call cleanup_file
NoRelease ==
  /\ file_path' = NoPath
  /\ raised' = FALSE
  /\ removed' = FALSE

\* a step that prints nothing, loads nothing and cleans nothing
Quiet ==
  /\ stdout' = NoLine
  /\ load_call' = NoCall
  /\ NoRelease
  /\ UNCHANGED loaded_sizes

\* Form("base"), Form("tr")
FormDefault(v, default) == IF v = Omitted THEN default ELSE v

\* ------------------------------------------------ POST /transcribe/ arrives
\* A client sends a request; it waits until the event loop is free.
InFlightFor(s) ==
  {q.id : q \in {x \in inbox : FormDefault(x.model_name, DefaultModel) = s}}
    \cup (IF pc # "idle" /\ model_name = s THEN {cur} ELSE {})

Arrive ==
  /\ arrived < MaxReq
  /\ \E m \in ModelForms :
       LET r == arrived + 1
           s == FormDefault(m, DefaultModel)
           peers == IF IsValidModel(s) /\ ~Has(model_cache, s) THEN InFlightFor(s) ELSE {}
       IN /\ inbox' = inbox \cup {[id |-> r, model_name |-> m]}
          /\ arrived' = r
          /\ rivals' = [rivals EXCEPT ![r] = peers]
  /\ response' = NoResponse
  /\ Quiet
  /\ UNCHANGED <<pc, model_cache, locals, files>>
  /\ UNCHANGED <<temp_path, outcome, failed_at, created, deleted, missed, loaded>>

\* The event loop calls transcribe_audio with the parsed parameters.
Start ==
  /\ pc = "idle"
  /\ \E q \in inbox : \E l \in LanguageForms : \E f \in FileNames :
       /\ inbox' = inbox \ {q}
       /\ cur' = q.id
       /\ form' = [model_name |-> q.model_name, language |-> l]
       /\ file' = f
       /\ model_name' = FormDefault(q.model_name, DefaultModel)
       /\ language' = FormDefault(l, DefaultLanguage)
  /\ pc' = "validate"
  /\ response' = NoResponse
  /\ UNCHANGED <<arrived, model_cache, temp_file_path, e, model, result>>
  /\ Quiet
  /\ UNCHANGED <<files, history>>

\* lines 60-61
Validate ==
  /\ pc = "validate"
  /\ IF IsValidModel(model_name)
       THEN /\ pc' = "name"
            /\ response' = NoResponse
            /\ UNCHANGED <<locals, outcome, failed_at, bg_state>>
       ELSE /\ pc' = "idle"
            /\ response' = Response("transcribe", cur, 400, NoBody, BadModelDetail)
            /\ outcome' = [outcome EXCEPT ![cur] = "400"]
            /\ failed_at' = [failed_at EXCEPT ![cur] = "validate"]
            /\ bg_state' = [bg_state EXCEPT ![cur] = "dropped"]
            /\ ClearLocals
  /\ Quiet
  /\ UNCHANGED <<inbox, arrived, model_cache, disk, background_tasks, uuid_calls, load_count>>
  /\ UNCHANGED <<temp_path, created, deleted, missed, loaded, rivals>>

\* lines 64-65, outside the try block: an exception here leaves the handler
\* as it is, and the framework answers with its own plain 500 response
Name ==
  /\ pc = "name"
  /\ IF file = NoName
       THEN /\ pc' = "idle"
            /\ response' = Response("transcribe", cur, 500, NoBody, NoDetail)
            /\ outcome' = [outcome EXCEPT ![cur] = "unhandled"]
            /\ failed_at' = [failed_at EXCEPT ![cur] = "name"]
            /\ bg_state' = [bg_state EXCEPT ![cur] = "dropped"]
            /\ ClearLocals
            /\ UNCHANGED <<uuid_calls, temp_path>>
       ELSE /\ pc' = "open"
            /\ uuid_calls' = uuid_calls + 1
            /\ temp_file_path' = TempPath(uuid_calls + 1, Lower(SplitExt(file)))
            /\ temp_path' = [temp_path EXCEPT ![cur] = temp_file_path']
            /\ response' = NoResponse
            /\ UNCHANGED <<outcome, failed_at, bg_state>>
            /\ UNCHANGED <<cur, form, file, model_name, language, e, model, result>>
  /\ Quiet
  /\ UNCHANGED <<inbox, arrived, model_cache, disk, background_tasks, load_count>>
  /\ UNCHANGED <<created, deleted, missed, loaded, rivals>>

\* an exception raised inside the try block
Raise(step, err) ==
  /\ pc' = "except"
  /\ e' = err
  /\ failed_at' = [failed_at EXCEPT ![cur] = step]

\* line 69: open(temp_file_path, "wb")
Open ==
  /\ pc = "open"
  /\ \/ /\ pc' = "copy"
        /\ disk' = disk \cup {temp_file_path}
        /\ created' = [created EXCEPT ![cur] = @ + 1]
        /\ UNCHANGED <<e, failed_at>>
     \/ /\ Raise("open", ErrOpen)
        /\ UNCHANGED <<disk, created>>
  /\ response' = NoResponse
  /\ Quiet
  /\ UNCHANGED <<inbox, arrived, model_cache>>
  /\ UNCHANGED <<cur, form, file, model_name, language, temp_file_path, model, result>>
  /\ UNCHANGED <<background_tasks, bg_state, uuid_calls, load_count>>
  /\ UNCHANGED <<temp_path, outcome, deleted, missed, loaded, rivals>>

\* line 70: shutil.copyfileobj(file.file, buffer), and closing the file
Copy ==
  /\ pc = "copy"
  /\ \/ /\ pc' = "add_task"
        /\ UNCHANGED <<e, failed_at>>
     \/ Raise("copy", ErrCopy)
  /\ response' = NoResponse
  /\ Quiet
  /\ UNCHANGED <<inbox, arrived, model_cache, files>>
  /\ UNCHANGED <<cur, form, file, model_name, language, temp_file_path, model, result>>
  /\ UNCHANGED <<temp_path, outcome, created, deleted, missed, loaded, rivals>>

\* line 73: background_tasks.add_task(cleanup_file, temp_file_path)
AddTask ==
  /\ pc = "add_task"
  /\ pc' = "lookup"
  /\ background_tasks' = [background_tasks EXCEPT ![cur] = Append(@, temp_file_path)]
  /\ response' = NoResponse
  /\ Quiet
  /\ UNCHANGED <<inbox, arrived, model_cache, locals, history>>
  /\ UNCHANGED <<disk, bg_state, uuid_calls, load_count>>

\* line 76: if model_name not in model_cache
Lookup ==
  /\ pc = "lookup"
  /\ IF ~Has(model_cache, model_name)
       THEN /\ pc' = "load"
            /\ missed' = [missed EXCEPT ![cur] = TRUE]
       ELSE /\ pc' = "get"
            /\ UNCHANGED missed
  /\ response' = NoResponse
  /\ Quiet
  /\ UNCHANGED <<inbox, arrived, model_cache, locals, files>>
  /\ UNCHANGED <<temp_path, outcome, failed_at, created, deleted, loaded, rivals>>

\* lines 77-78: the notice, then model_cache[model_name] = whisper.load_model(..)
\* each call that returns gives a new model object
Load ==
  /\ pc = "load"
  /\ stdout' = <<"Loading Whisper model: ", model_name>>
  /\ load_call' = model_name
  /\ NoRelease
  /\ \/ /\ pc' = "get"
        /\ load_count' = load_count + 1
        /\ model_cache' = Put(model_cache, model_name,
                              [size |-> model_name, id |-> load_count + 1])
        /\ loaded_sizes' = loaded_sizes \cup {model_name}
        /\ loaded' = [loaded EXCEPT ![cur] = TRUE]
        /\ UNCHANGED <<e, failed_at>>
     \/ /\ Raise("load", ErrLoad)
        /\ model_cache' = LoadRaised(model_cache, model_name)
        /\ UNCHANGED <<load_count, loaded_sizes, loaded>>
  /\ response' = NoResponse
  /\ UNCHANGED <<inbox, arrived, disk, background_tasks, bg_state, uuid_calls>>
  /\ UNCHANGED <<cur, form, file, model_name, language, temp_file_path, model, result>>
  /\ UNCHANGED <<temp_path, outcome, created, deleted, missed, rivals>>

\* line 80: model = model_cache[model_name]
GetModel ==
  /\ pc = "get"
  /\ pc' = "transcribe"
  /\ model' = Get(model_cache, model_name)
  /\ response' = NoResponse
  /\ Quiet
  /\ UNCHANGED <<inbox, arrived, model_cache, files, history>>
  /\ UNCHANGED <<cur, form, file, model_name, language, temp_file_path, e, result>>

\* line 83: the notice; the handler then enters model.transcribe
PrintTranscribing ==
  /\ pc = "transcribe"
  /\ pc' = "transcribing"
  /\ stdout' = <<"Transcribing file: ", temp_file_path, " in language: ", language>>
  /\ load_call' = NoCall
  /\ NoRelease
  /\ response' = NoResponse
  /\ UNCHANGED <<inbox, arrived, model_cache, locals, files, history, loaded_sizes>>

\* line 84: model.transcribe(temp_file_path, language=language) reads the
\* file while the worker threads go on; it returns a text only if the file
\* is there
Transcribe ==
  /\ pc = "transcribing"
  /\ Quiet
  /\ \/ /\ temp_file_path \in disk
        /\ \E t \in Texts : result' = t
        /\ pc' = "return"
        /\ UNCHANGED <<e, failed_at>>
     \/ /\ Raise("transcribe", ErrTranscribe)
        /\ UNCHANGED result
  /\ response' = NoResponse
  /\ UNCHANGED <<inbox, arrived, model_cache, files>>
  /\ UNCHANGED <<cur, form, file, model_name, language, temp_file_path, model>>
  /\ UNCHANGED <<temp_path, outcome, created, deleted, missed, loaded, rivals>>

\* lines 86-91: the handler returns; the framework builds the response and
\* attaches the request's background tasks to it
Return ==
  /\ pc = "return"
  /\ pc' = "idle"
  /\ response' = Response("transcribe", cur, 200,
                          TranscriptionBody(result, file, language, model_name),
                          NoDetail)
  /\ outcome' = [outcome EXCEPT ![cur] = "200"]
  /\ bg_state' = [bg_state EXCEPT ![cur] = "attached"]
  /\ ClearLocals
  /\ Quiet
  /\ UNCHANGED <<inbox, arrived, model_cache, disk, background_tasks, uuid_calls, load_count>>
  /\ UNCHANGED <<temp_path, failed_at, created, deleted, missed, loaded, rivals>>

\* lines 93-96: remove the file if it exists
Except ==
  /\ pc = "except"
  /\ pc' = "raise"
  /\ disk' = except_remove(temp_file_path, disk)
  /\ deleted' = [deleted EXCEPT ![cur] = @ + Removals(temp_file_path, disk, disk')]
  /\ response' = NoResponse
  /\ Quiet
  /\ UNCHANGED <<inbox, arrived, model_cache, locals>>
  /\ UNCHANGED <<background_tasks, bg_state, uuid_calls, load_count>>
  /\ UNCHANGED <<temp_path, outcome, failed_at, created, missed, loaded, rivals>>

\* line 97: raise HTTPException(500); the request's background tasks are
\* discarded with the handler's result
RaiseHTTP ==
  /\ pc = "raise"
  /\ pc' = "idle"
  /\ response' = Response("transcribe", cur, 500, NoBody, ErrorDetail(e))
  /\ outcome' = [outcome EXCEPT ![cur] = "500"]
  /\ bg_state' = [bg_state EXCEPT ![cur] = "dropped"]
  /\ ClearLocals
  /\ Quiet
  /\ UNCHANGED <<inbox, arrived, model_cache, disk, background_tasks, uuid_calls, load_count>>
  /\ UNCHANGED <<temp_path, failed_at, created, deleted, missed, loaded, rivals>>

\* the tasks of one BackgroundTasks object, run in order
RECURSIVE RunTasks(_, _)
RunTasks(tasks, d) ==
  IF tasks = <<>> THEN d
  ELSE RunTasks(Tail(tasks), cleanup_file(Head(tasks), d))

\* whether one of the tasks raised
RECURSIVE TasksRaised(_, _)
TasksRaised(tasks, d) ==
  IF tasks = <<>> THEN FALSE
  ELSE \/ cleanup_file_run(Head(tasks), d).raised
       \/ TasksRaised(Tail(tasks), cleanup_file(Head(tasks), d))

\* After the success response was sent, a worker thread runs the tasks.
Cleanup(r) ==
  /\ bg_state[r] = "attached"
  /\ bg_state' = [bg_state EXCEPT ![r] = "ran"]
  /\ disk' = RunTasks(background_tasks[r], disk)
  /\ file_path' = IF background_tasks[r] = <<>> THEN NoPath
                  ELSE background_tasks[r][Len(background_tasks[r])]
  /\ raised' = TasksRaised(background_tasks[r], disk)
  /\ removed' = (disk' # disk)
  /\ deleted' = [deleted EXCEPT ![r] = @ + Removals(temp_path[r], disk, disk')]
  /\ response' = NoResponse
  /\ stdout' = NoLine
  /\ load_call' = NoCall
  /\ UNCHANGED loaded_sizes
  /\ UNCHANGED <<inbox, arrived, pc, model_cache, locals>>
  /\ UNCHANGED <<background_tasks, uuid_calls, load_count>>
  /\ UNCHANGED <<temp_path, outcome, failed_at, created, missed, loaded, rivals>>

\* lines 99-102: GET /models/
get_available_models ==
  /\ pc = "idle"
  /\ response' = Response("models", 0, 200, ModelsBody, NoDetail)
  /\ Quiet
  /\ UNCHANGED <<inbox, arrived, pc, model_cache, locals, files, history>>

\* lines 104-110: GET /health/
health_check ==
  /\ pc = "idle"
  /\ response' = Response("health", 0, 200, HealthBody(model_cache), NoDetail)
  /\ Quiet
  /\ UNCHANGED <<inbox, arrived, pc, model_cache, locals, files, history>>

\* lines 112-115: GET /
root ==
  /\ pc = "idle"
  /\ response' = Response("root", 0, 200, RootBody, NoDetail)
  /\ Quiet
  /\ UNCHANGED <<inbox, arrived, pc, model_cache, locals, files, history>>

transcribe_audio ==
  \/ Start \/ Validate \/ Name \/ Open \/ Copy \/ AddTask
  \/ Lookup \/ Load \/ GetModel \/ PrintTranscribing \/ Transcribe \/ Return
  \/ Except \/ RaiseHTTP

Next ==
  \/ Arrive
  \/ transcribe_audio
  \/ \E r \in Reqs : Cleanup(r)
  \/ get_available_models
  \/ health_check
  \/ root

Spec == Init /\ [][Next]_vars

\* The worker threads run every task that was attached to a sent response.
FairSpec == Spec /\ \A r \in Reqs : WF_vars(Cleanup(r))

\* ------------------------------------------------- cleanup_file by itself
\* The files the scratch directory can hold: the names this process gives,
\* present or left behind from an earlier run of the process.
ScratchPaths == {TempPath(u, ext) : u \in Reqs, ext \in {<<".", "m">>, <<>>}}

\* The caches cleanup_file can meet: empty, or holding one loaded size.
CleanupCaches ==
  {<<>>} \cup {<<[key |-> s, value |-> [size |-> s, id |-> 1]]>> : s \in {"tiny", "base"}}

CleanupInit ==
  /\ NoRequests
  /\ disk \in SUBSET ScratchPaths
  /\ model_cache \in CleanupCaches

\* lines 40-43: one call cleanup_file(p)
Release(p) ==
  /\ file_path' = p
  /\ disk' = cleanup_file(p, disk)
  /\ raised' = cleanup_file_run(p, disk).raised
  /\ removed' = (disk' # disk)
  /\ UNCHANGED <<inbox, arrived, pc, response, model_cache, locals, history, loads>>
  /\ UNCHANGED <<background_tasks, bg_state, uuid_calls, load_count>>

CleanupNext == \E p \in ScratchPaths : Release(p)

CleanupSpec == CleanupInit /\ [][CleanupNext]_vars

\* ------------------------------------------------------------ properties
Finished(r) ==
  \/ outcome[r] = "500"
  \/ outcome[r] = "200" /\ bg_state[r] = "ran"

\* the handler took a step (and not a worker thread or an arriving request)
HandlerStep == pc' # pc

\* C1: a request whose model.transcribe call raised has ended with a server
\* error and its temporary file is not in the scratch directory, in the state
\* where the request finished and in every later state.
NoLeakOnTranscribeFailure ==
  \A r \in Reqs :
    failed_at[r] = "transcribe" /\ outcome[r] # "none"
      => outcome[r] = "500" /\ temp_path[r] # NoPath /\ temp_path[r] \notin disk

TranscribeFailureCleaned ==
  \E r \in Reqs :
    /\ failed_at[r] = "transcribe" /\ outcome[r] = "500"
    /\ created[r] = 1 /\ deleted[r] = 1
    /\ temp_path[r] \notin disk

\* C2: after a success response the request's temporary file is eventually
\* deleted by its background task and is absent from then on (the worker
\* threads run the attached tasks: FairSpec).  A success stays a success, so
\* this is: from some point on, a request that returned a success response
\* has its temporary file absent.
SuccessEventuallyCleaned ==
  /\ [][\A r \in Reqs : outcome[r] = "200" => outcome'[r] = "200"]_vars
  /\ \A r \in Reqs :
       <>[](outcome[r] = "200" => temp_path[r] # NoPath /\ temp_path[r] \notin disk)

SuccessCleaned ==
  \E r \in Reqs :
    /\ outcome[r] = "200" /\ bg_state[r] = "ran"
    /\ created[r] = 1 /\ deleted[r] = 1
    /\ temp_path[r] \notin disk

\* C3 as stated: every finished request that passed validation and left through
\* success or through the except block created its temporary file exactly once
\* and deleted it exactly once.
ExactlyOneCreationAndDeletion ==
  \A r \in Reqs : Finished(r) => created[r] = 1 /\ deleted[r] = 1

\* C3 amended: the temporary file is created at most once and never removed
\* more often than created; when the request has finished, every created file
\* was removed exactly once; the file was created exactly once unless opening
\* it failed, and then nothing was created and nothing removed.
CreatedFileDeletedOnce ==
  \A r \in Reqs :
    /\ created[r] <= 1
    /\ deleted[r] <= created[r]
    /\ Finished(r) => /\ deleted[r] = created[r]
                      /\ created[r] = 0 <=> failed_at[r] = "open"

BothExitKinds ==
  \E r1, r2 \in Reqs :
    /\ Finished(r1) /\ outcome[r1] = "200" /\ created[r1] = 1 /\ deleted[r1] = 1
    /\ Finished(r2) /\ failed_at[r2] = "open" /\ created[r2] = 0 /\ deleted[r2] = 0

\* C4: the handler step taken for a request whose model_name is not one of
\* MODELS answers 400 and ends the handler, and neither that step nor the call
\* of the handler creates a file, schedules a task, calls whisper.load_model
\* or changes the model cache.
Untouched ==
  /\ disk' \subseteq disk
  /\ created' = created
  /\ background_tasks' = background_tasks
  /\ load_call' = NoCall
  /\ model_cache' = model_cache
  /\ uuid_calls' = uuid_calls

InvalidModelRejectedFirst ==
  [][/\ pc = "idle" /\ pc' = "validate" /\ model_name' \notin ModelSet => Untouched
     /\ pc = "validate" /\ model_name \notin ModelSet /\ HandlerStep
          => /\ pc' = "idle"
             /\ response' = Response("transcribe", cur, 400, NoBody, BadModelDetail)
             /\ outcome'[cur] = "400"
             /\ temp_path'[cur] = NoPath
             /\ background_tasks'[cur] = <<>>
             /\ Untouched]_vars

InvalidModelAnswered ==
  /\ response.endpoint = "transcribe" /\ response.status = 400
  /\ outcome[response.for] = "400"
  /\ created[response.for] = 0
  /\ model_cache # <<>>

ErrOf(step) ==
  IF step = "open" THEN ErrOpen
  ELSE IF step = "copy" THEN ErrCopy
  ELSE IF step = "load" THEN ErrLoad
  ELSE IF step = "transcribe" THEN ErrTranscribe
  ELSE "TypeError: expected str, bytes or os.PathLike object, not NoneType"

InternalSteps == {"name", "open", "copy", "load", "transcribe"}

\* C5 as stated: a request with a valid model size in which a step (deriving
\* the temporary name, writing the upload, loading the model, transcribing)
\* raised ends with HTTP 500 whose detail carries the text of that error.
InternalFailureIs500WithDetail ==
  /\ \A r \in Reqs :
       failed_at[r] \in InternalSteps /\ outcome[r] # "none" => outcome[r] = "500"
  /\ response.endpoint = "transcribe" /\ failed_at[response.for] \in InternalSteps
       => /\ response.status = 500
          /\ response.detail = ErrorDetail(ErrOf(failed_at[response.for]))

\* C6: once a size has a handle in the cache, no step replaces that handle,
\* calls whisper.load_model for that size or prints the Loading notice for
\* it, and a handler that reaches the transcription call for that size holds
\* the stored handle.
CachedHandleReused ==
  [][\A s \in ModelSet :
       s \in Keys(model_cache) =>
         /\ s \in Keys(model_cache')
         /\ Get(model_cache', s) = Get(model_cache, s)
         /\ load_call' # s
         /\ stdout' # <<"Loading Whisper model: ", s>>
         /\ pc' = "transcribe" /\ model_name' = s => model' = Get(model_cache, s)]_vars

CacheHitServed ==
  \E r1, r2 \in Reqs :
    /\ r1 # r2
    /\ loaded[r1] /\ missed[r1]
    /\ outcome[r2] = "200" /\ ~missed[r2] /\ ~loaded[r2]
    /\ load_count = 1

\* Two requests for the same size that were both in flight before a handle
\* for that size was stored: q \in rivals[r].
Raced(r, q) == q \in rivals[r]

HealthListsLoadedSizes ==
  /\ HealthBody(model_cache).status = "healthy"
  /\ RangeOf(HealthBody(model_cache).models_loaded) = loaded_sizes
  /\ arrived = 0 => HealthBody(model_cache).models_loaded = <<>>
  /\ response.endpoint = "health"
       => /\ response.status = 200
          /\ response.body.status = "healthy"
          /\ RangeOf(response.body.models_loaded) = loaded_sizes

HealthAfterLoads ==
  /\ response.endpoint = "health"
  /\ Len(response.body.models_loaded) = 2
  /\ \E r \in Reqs : failed_at[r] = "transcribe" /\ outcome[r] = "500"

\* C9: the keys of the model cache are among the five sizes, one entry per
\* key, and no step removes a key.
CacheKeysOnlyGrow ==
  /\ [](/\ Keys(model_cache) \subseteq ModelSet
        /\ Len(model_cache) <= 5
        /\ Cardinality(Keys(model_cache)) = Len(model_cache))
  /\ [][Keys(model_cache) \subseteq Keys(model_cache')]_vars

CacheKeptAfterFailure ==
  /\ Len(model_cache) = 2
  /\ \E r \in Reqs : outcome[r] = "500" /\ loaded[r]
  /\ \E r \in Reqs : outcome[r] = "200" /\ bg_state[r] = "ran"

\* C10: the success response carries the text the transcription call
\* returned, the upload's own file name, the language hint and the model
\* size of the request, "tr" and "base" standing for omitted fields.
SuccessResponseFields ==
  [][pc = "return" /\ HandlerStep =>
       /\ response'.endpoint = "transcribe" /\ response'.for = cur
       /\ response'.status = 200
       /\ response'.body.text = result
       /\ response'.body.filename = file
       /\ response'.body.language =
            (IF form.language = Omitted THEN "tr" ELSE form.language)
       /\ response'.body.model =
            (IF form.model_name = Omitted THEN "base" ELSE form.model_name)]_vars

DefaultsAnswered ==
  /\ response.endpoint = "transcribe" /\ response.status = 200
  /\ response.body = [text |-> "merhaba", filename |-> <<"A", ".", "M">>,
                      language |-> "tr", model |-> "base"]

\* C11: GET /models/ answers the list tiny, base, small, medium, large in
\* that order whatever is cached or in flight, and the steps of GET /models/,
\* GET /health/ and GET / change neither the model cache nor the scratch
\* directory.
ReadOnlyEndpoints ==
  [][/\ response'.endpoint = "models"
          => /\ response'.status = 200
             /\ response'.body = [models |-> <<"tiny", "base", "small", "medium", "large">>]
     /\ response'.endpoint \in {"models", "health", "root"}
          => /\ model_cache' = model_cache
             /\ disk' = disk
             /\ background_tasks' = background_tasks
             /\ bg_state' = bg_state
             /\ inbox' = inbox]_vars

ModelsListedWhileBusy ==
  /\ response.endpoint = "models"
  /\ response.body.models = <<"tiny", "base", "small", "medium", "large">>
  /\ Len(model_cache) = 1
  /\ disk # {}
  /\ inbox # {}

\* a step that removes the temporary file of request r
Removes(r) == temp_path[r] \in disk /\ temp_path[r] \notin disk'

\* the except block's removal for request r, before the error is signalled
InlineRemoval(r) == cur = r /\ pc = "except" /\ pc' = "raise" /\ outcome[r] = "none"

\* the background task's removal for request r, after its success response
DeferredRemoval(r) ==
  /\ outcome[r] = "200" /\ cur # r
  /\ bg_state[r] = "attached" /\ bg_state'[r] = "ran"

\* the order both readings of C12 share: a request's file is removed either
\* by its except block or by its background task after its response, the
\* file is there until the transcription call has ended, and the server
\* error is signalled after the except block's removal
RemovalOrder ==
  /\ \A r \in Reqs : Removes(r) => InlineRemoval(r) \/ DeferredRemoval(r)
  /\ pc \in {"transcribe", "transcribing"} => temp_file_path \in disk'
  /\ \A r \in Reqs : outcome[r] = "none" /\ outcome'[r] = "500"
       => /\ pc = "raise" /\ cur = r
          /\ temp_path[r] \notin disk
          /\ response' = Response("transcribe", r, 500, NoBody, ErrorDetail(e))

\* C12 as stated: the order above, and the except block removes the file
\* only for an error raised before the cleanup task was scheduled.
InlineRemovalOnlyBeforeScheduling ==
  [][/\ RemovalOrder
     /\ \A r \in Reqs : Removes(r) /\ InlineRemoval(r) => background_tasks[r] = <<>>]_vars

\* C12 amended: the order above, and the except block removes the file for
\* every error raised inside the try block while the file exists, before or
\* after the cleanup task was scheduled: whenever the handler leaves the
\* except block the file is gone; a request that ended with the server error
\* never has its scheduled task run.
InlineRemovalForEveryError ==
  [][/\ RemovalOrder
     /\ pc = "except" /\ HandlerStep => temp_file_path \notin disk'
     /\ \A r \in Reqs : outcome[r] = "500" => bg_state'[r] = "dropped"]_vars

RemovedInlineAfterScheduling ==
  \E r1, r2 \in Reqs :
    /\ outcome[r1] = "500" /\ failed_at[r1] = "transcribe"
    /\ background_tasks[r1] = <<temp_path[r1]>>
    /\ created[r1] = 1 /\ deleted[r1] = 1
    /\ outcome[r2] = "200" /\ bg_state[r2] = "ran" /\ deleted[r2] = 1

\* C13: a call of cleanup_file on a present file removes exactly that file;
\* on an absent file it changes nothing; it never raises; a second call on
\* the same path right after the first changes nothing; no other file of the
\* scratch directory and no entry of the model cache is changed.
CleanupIdempotent ==
  [][/\ file_path' \in disk => disk' = disk \ {file_path'} /\ removed'
     /\ file_path' \notin disk => disk' = disk /\ ~removed'
     /\ ~raised'
     /\ file_path' = file_path => disk' = disk
     /\ \A p \in ScratchPaths \ {file_path'} : p \in disk' <=> p \in disk
     /\ model_cache' = model_cache]_vars

CleanedAbsentAmongOthers ==
  /\ file_path \in ScratchPaths
  /\ ~removed
  /\ ~raised
  /\ disk # {}
  /\ model_cache # <<>>

\* C14: however the requests and the background tasks interleave, two
\* requests never hold the same temporary path (also when they upload files
\* of the same name); while a request is in its transcription call its own
\* file is in the scratch directory; and a request's file leaves the scratch
\* directory only through that request's own except block or own background
\* task, each of which is called on the request's own path.
TempFilesRequestScoped ==
  [][/\ \A r1, r2 \in Reqs :
          r1 # r2 /\ temp_path'[r1] # NoPath => temp_path'[r1] # temp_path'[r2]
     /\ pc' \in {"transcribe", "transcribing"}
          => temp_file_path' = temp_path'[cur'] /\ temp_path'[cur'] \in disk'
     /\ \A r \in Reqs :
          /\ Removes(r)
               => \/ cur = r /\ pc = "except" /\ temp_file_path = temp_path[r]
                  \/ bg_state[r] = "attached" /\ bg_state'[r] = "ran"
          /\ bg_state[r] = "attached" /\ bg_state'[r] = "ran"
               => /\ file_path' = temp_path[r]
                  /\ \A q \in Reqs \ {r} : temp_path[q] \in disk <=> temp_path[q] \in disk']_vars

CleanedDuringAnotherTranscription ==
  \E r1, r2 \in Reqs :
    /\ r1 # r2
    /\ pc = "transcribing" /\ cur = r2
    /\ temp_path[r2] \in disk
    /\ temp_path[r2].ext = temp_path[r1].ext
    /\ bg_state[r1] = "ran"
    /\ file_path = temp_path[r1] /\ removed
    /\ temp_path[r1] \notin disk

\* C15: a request that fails changes the model cache only by a load that
\* returned. A load that raises leaves the cache as it was, the size is not
\* listed by GET /health/, and a lookup that finds no entry for the size
\* calls whisper.load_model for it again. When the transcription call raises
\* after the load, the handle is still cached; the except block and the
\* server error leave the cache alone; entries once stored are never
\* replaced, and a lookup that finds the entry goes on with the cached
\* handle without a load.
FailureKeepsCompletedLoads ==
  [][/\ pc = "load" /\ pc' = "except"
          => /\ model_cache' = model_cache
             /\ \A i \in 1..Len(model_cache') : model_cache'[i].key # model_name
             /\ model_name \notin RangeOf(HealthBody(model_cache').models_loaded)
     /\ pc = "lookup" /\ HandlerStep /\ (\A i \in 1..Len(model_cache) : model_cache[i].key # model_name)
          => pc' = "load"
     /\ pc = "load" /\ HandlerStep => load_call' = model_name
     /\ pc = "transcribing" /\ pc' = "except"
          => \E i \in 1..Len(model_cache') :
               model_cache'[i] = [key |-> model_name, value |-> model]
     /\ pc \in {"except", "raise"} => model_cache' = model_cache
     /\ model_cache' # model_cache
          => /\ pc = "load" /\ pc' = "get"
             /\ model_cache' = Append(model_cache,
                  [key |-> model_name, value |-> [size |-> model_name, id |-> load_count']])
     /\ pc = "lookup" /\ HandlerStep /\ (\E i \in 1..Len(model_cache) : model_cache[i].key = model_name)
          => pc' = "get" /\ load_call' = NoCall /\ load_count' = load_count
     /\ pc = "get" /\ HandlerStep
          => \E i \in 1..Len(model_cache) :
               model_cache[i] = [key |-> model_name, value |-> model']]_vars

LoadRetriedThenKept ==
  \E r1, r2 \in Reqs :
    /\ r1 \in rivals[r2]
    /\ outcome[r1] = "500" /\ failed_at[r1] = "load"
    /\ missed[r2] /\ loaded[r2]
    /\ outcome[r2] = "500" /\ failed_at[r2] = "transcribe"
    /\ Len(model_cache) = 1
    /\ load_count = 1

====
